---- MODULE Spec2Model ----
(***************************************************************************)
(* wspotify: the OAuth2 token state machine of the three authorization     *)
(* flows, APIReference.check_access_token, and the concurrent fan-out of   *)
(* the paginated and the ID-batched resource operations of Album/Artist.   *)
(*                                                                         *)
(* One client (APIReference) over one flow.  The calling thread runs one   *)
(* top-level call at a time; the workers of a ThreadPoolExecutor answer    *)
(* the submitted requests in any order.                                    *)
(***************************************************************************)
EXTENDS Integers, Sequences, FiniteSets, TLC

VARIABLES
    now,           \* datetime.now(), in whole time units
    flow,          \* class of self.auth
    scopes,        \* self.auth.scopes (unused by ClientCredentials: no such attribute)
    state,         \* self.auth.state (AuthorizationCode and AuthorizationCodePKCE)
    access_token,  \* self.auth.access_token
    header,        \* self.client.headers["Authorization"], the value after "Bearer "
    issued,        \* number of tokens the token endpoint has issued so far
    call,          \* the running (or last finished) top-level call and its inputs
    pc,            \* position of the calling thread
    outcome,       \* how the call ended: "return" or the exception raised
    detail,        \* what the exception raised carries
    tokenCalls,    \* the token-endpoint requests of this call, with their answers
    probe,         \* the synchronous first request of this call, with its status
    params,        \* the params dict of the running operation
    loopIdx,       \* next iteration of the submission loop
    futures,       \* futures: list[Future[Response]]
    merged,        \* futures already yielded by as_completed
    result         \* result, as accumulated so far

vars == <<now, flow, scopes, state, access_token, header, issued, call, pc, outcome,
          detail, tokenCalls, probe, params, loopIdx, futures, merged, result>>

tokenVars == <<access_token, header, issued, tokenCalls>>
fanVars == <<probe, params, loopIdx, futures, merged, result>>

-----------------------------------------------------------------------------
(* Bounds of the model *)

MaxClock == 4
MaxIssued == 3
MaxExpiresIn == 2
MaxTotal == 151
MaxIds == 45
MaxArtistIds == 101

-----------------------------------------------------------------------------
(* Values *)

None == -1
NoneStr == "None"
NoToken == [none |-> TRUE]
NoClient == -2
NoRequest == [none |-> TRUE]

\* What an exception carries: the error of AccessTokenError, AuthorizationFailed
\* and ResponseError; the missing scopes of IncompleteScopes.
NoDetail == [error |-> NoneStr, missing |-> {}]
Error(error) == [error |-> error, missing |-> {}]

Flows == {"ClientCredentials", "AuthorizationCode", "AuthorizationCodePKCE"}

USER_LIBRARY_READ == "user-library-read"
USER_LIBRARY_MODIFY == "user-library-modify"

\* The instant wspotify.authorization.schemas is imported: the class body of
\* AccessToken evaluates datetime.now() once, as the default of created_at.
ImportTime == 0

EmptyDict == [k \in {} |-> 0]

SetKey(d, k, v) == [x \in DOMAIN d \cup {k} |-> IF x = k THEN v ELSE d[x]]

Min(a, b) == IF a < b THEN a ELSE b

-----------------------------------------------------------------------------
(* AccessToken *)

\* AccessToken(**data): the token endpoint's JSON carries access_token,
\* token_type, scope, expires_in and refresh_token; created_at takes the
\* class default.
AccessToken(data) ==
    [access_token  |-> data.access_token,
     expires_in    |-> data.expires_in,
     refresh_token |-> data.refresh_token,
     created_at    |-> ImportTime]

\* valid() that holds every token valid
valid_always(token, t) == TRUE

\* valid() with the boundary instant counted as expired
valid_strict(token, t) ==
    IF t >= token.created_at + token.expires_in THEN FALSE ELSE TRUE

\* AccessToken.valid(), called at the instant t:
\*   now = datetime.now()
\*   if now > self.created_at + timedelta(seconds=self.expires_in): return False
\*   return True
valid(token, t) ==
    IF t > token.created_at + token.expires_in THEN FALSE ELSE TRUE

-----------------------------------------------------------------------------
(* The token endpoint (collaborator) *)

\* The answers httpx.post(self.token_url, ...) can get for a form, when the
\* endpoint has issued iss tokens so far.  A rejection is always possible; a
\* refresh_token grant is honoured only when it carries a refresh token.  The
\* access value of a new token differs from every earlier one.
TokenAnswers(form, iss) ==
    {[status |-> 400, data |-> [error |-> "invalid_grant"]]}
    \cup
    IF iss < MaxIssued /\ (form.grant_type = "refresh_token" => form.refresh_token # NoneStr)
    THEN {[status |-> 200,
           data |-> [access_token |-> iss + 1, expires_in |-> e, refresh_token |-> r]] :
            e \in 1..MaxExpiresIn,
            r \in CASE form.grant_type = "client_credentials" -> {NoneStr}
                    [] form.grant_type = "authorization_code" -> {"rt_code"}
                    [] OTHER -> {NoneStr, "rt_new"}}
    ELSE {}

\* What a flow method leaves behind: the stored token, the endpoint's issue
\* counter, the requests made, the value returned and the exception raised
\* ("return" when none).
Effect(token, iss, calls, value, exc) ==
    [token |-> token, issued |-> iss, calls |-> calls, value |-> value, exc |-> exc]

\* PostForm that drops the stored token when the endpoint rejects the form
PostForm_clearing(form, tok, iss) ==
    {IF a.status # 200
     THEN Effect(NoToken, iss, <<[form |-> form, status |-> a.status, data |-> a.data]>>,
                 NoToken, "AccessTokenError")
     ELSE Effect(AccessToken(a.data), iss + 1,
                 <<[form |-> form, status |-> a.status, data |-> a.data]>>,
                 NoToken, "return") :
        a \in TokenAnswers(form, iss)}

\* The tail shared by get_access_token and refresh_access_token of every
\* flow: post the form, raise AccessTokenError on a status other than 200,
\* else store AccessToken(**data).  The methods return None.
PostForm(form, tok, iss) ==
    {IF a.status # 200
     THEN Effect(tok, iss, <<[form |-> form, status |-> a.status, data |-> a.data]>>,
                 NoToken, "AccessTokenError")
     ELSE Effect(AccessToken(a.data), iss + 1,
                 <<[form |-> form, status |-> a.status, data |-> a.data]>>,
                 NoToken, "return") :
        a \in TokenAnswers(form, iss)}

\* get_access_token of the three flows (code is unused by ClientCredentials)
GetForm(fl, code) ==
    CASE fl = "ClientCredentials" ->
            [grant_type |-> "client_credentials", auth |-> "Basic",
             code |-> NoneStr, refresh_token |-> NoneStr]
      [] fl = "AuthorizationCode" ->
            [grant_type |-> "authorization_code", auth |-> "Basic",
             code |-> code, refresh_token |-> NoneStr]
      [] OTHER ->
            [grant_type |-> "authorization_code", auth |-> "code_verifier",
             code |-> code, refresh_token |-> NoneStr]

get_access_token(fl, code, tok, iss) == PostForm(GetForm(fl, code), tok, iss)

\* StillValid with the test of valid() inverted
StillValid_inverted(tok, t) == tok # NoToken /\ ~valid(tok, t)

\* The early return of AuthorizationCode[PKCE].refresh_access_token:
\* "if self.access_token and self.access_token.valid(): return"
StillValid(tok, t) == tok # NoToken /\ valid(tok, t)

\* RefreshForm preferring the stored refresh token to the explicit one
RefreshForm_storedFirst(fl, tok, refresh_token) ==
    [grant_type |-> "refresh_token",
     auth |-> IF fl = "AuthorizationCode" THEN "Basic" ELSE "client_id",
     code |-> NoneStr,
     refresh_token |-> IF tok # NoToken THEN tok.refresh_token ELSE refresh_token]

\* The form of the refresh request:
\*   "refresh_token": self.access_token.refresh_token if refresh_token is None
\*                    else refresh_token
RefreshForm(fl, tok, refresh_token) ==
    [grant_type |-> "refresh_token",
     auth |-> IF fl = "AuthorizationCode" THEN "Basic" ELSE "client_id",
     code |-> NoneStr,
     refresh_token |-> IF refresh_token = NoneStr THEN tok.refresh_token
                       ELSE refresh_token]

\* refresh_access_token that treats ClientCredentials like the code flows
refresh_access_token_uniform(fl, refresh_token, tok, t, iss) ==
    IF tok = NoToken /\ refresh_token = NoneStr
    THEN {Effect(tok, iss, <<>>, NoToken, "AccessTokenNotFound")}
    ELSE IF StillValid(tok, t)
    THEN {Effect(tok, iss, <<>>, NoToken, "return")}
    ELSE PostForm(RefreshForm(fl, tok, refresh_token), tok, iss)

\* refresh_access_token without the test for a missing token: the form is
\* then built from self.access_token.refresh_token of None.
refresh_access_token_noGuard(fl, refresh_token, tok, t, iss) ==
    IF fl = "ClientCredentials"
    THEN get_access_token(fl, NoneStr, tok, iss)
    ELSE IF tok = NoToken /\ refresh_token = NoneStr
    THEN {Effect(tok, iss, <<>>, NoToken, "AttributeError")}
    ELSE IF StillValid(tok, t)
    THEN {Effect(tok, iss, <<>>, NoToken, "return")}
    ELSE PostForm(RefreshForm(fl, tok, refresh_token), tok, iss)

\* refresh_access_token(refresh_token=...) of the three flows.
\* ClientCredentials takes no refresh token and requests a new token.
refresh_access_token(fl, refresh_token, tok, t, iss) ==
    IF fl = "ClientCredentials"
    THEN get_access_token(fl, NoneStr, tok, iss)
    ELSE IF tok = NoToken /\ refresh_token = NoneStr
    THEN {Effect(tok, iss, <<>>, NoToken, "AccessTokenNotFound")}
    ELSE IF StillValid(tok, t)
    THEN {Effect(tok, iss, <<>>, NoToken, "return")}
    ELSE PostForm(RefreshForm(fl, tok, refresh_token), tok, iss)

-----------------------------------------------------------------------------
(* APIReference *)

\* check_access_token: the outcomes, each with the header it leaves.
\*   if self.auth.access_token is None: raise     (a bare raise: RuntimeError)
\*   if not valid(): self.auth.access_token = self.auth.refresh_access_token()
\*                   self.client.headers["Authorization"] = f"Bearer {...access_token}"
check_access_token(fl, tok, hdr, t, iss) ==
    IF tok = NoToken
    THEN {[eff |-> Effect(tok, iss, <<>>, NoToken, "RuntimeError"), header |-> hdr]}
    ELSE IF ~valid(tok, t)
    THEN {IF r.exc # "return"
          THEN [eff |-> r, header |-> hdr]
          ELSE IF r.value = NoToken
          THEN [eff |-> Effect(r.value, r.issued, r.calls, NoToken, "AttributeError"),
                header |-> hdr]
          ELSE [eff |-> Effect(r.value, r.issued, r.calls, NoToken, "return"),
                header |-> r.value.access_token] :
            r \in refresh_access_token(fl, NoneStr, tok, t, iss)}
    ELSE {[eff |-> Effect(tok, iss, <<>>, NoToken, "return"), header |-> hdr]}

\* IncompleteScopes reporting the first missing scope only
IncompleteScopes_firstOnly(expected, found) ==
    [error |-> NoneStr,
     missing |-> IF \E s \in expected : s \notin found
                 THEN {CHOOSE s \in expected : s \notin found} ELSE {}]

\* IncompleteScopes(expected, found):
\*   missing = [scope.name for scope in expected if scope not in found]
IncompleteScopes(expected, found) ==
    [error |-> NoneStr, missing |-> {scope \in expected : scope \notin found}]

\* check_scopes(required_scopes): the exception raised ("return" when none)
\* and what it carries.
\* InvalidAuthorizationFlow.__init__ calls super.__init__(...) on the builtin
\* super type itself, which raises TypeError while the exception is built.
check_scopes(fl, granted, required) ==
    IF fl = "ClientCredentials" THEN [exc |-> "TypeError", detail |-> NoDetail]
    ELSE IF \E scope \in required : scope \notin granted
    THEN [exc |-> "IncompleteScopes", detail |-> IncompleteScopes(required, granted)]
    ELSE [exc |-> "return", detail |-> NoDetail]

\* What the exception of a flow method carries:
\*   raise AccessTokenError(data.get("error", None))
Carried(eff) ==
    IF eff.exc = "AccessTokenError"
    THEN Error(eff.calls[Len(eff.calls)].data.error)
    ELSE NoDetail

-----------------------------------------------------------------------------
(* Top-level calls of the token state machine.  Each runs to completion in *)
(* the calling thread; call records what was called and the state before.  *)

Idle == pc \in {"idle", "done"}

NewCall(op, args) ==
    [op |-> op, at |-> now, pre |-> access_token, pre_header |-> header, args |-> args]

NoCall == [op |-> "none", at |-> 0, pre |-> NoToken, pre_header |-> NoClient,
           args |-> EmptyDict]

NoFanout ==
    /\ probe' = NoRequest
    /\ params' = EmptyDict
    /\ loopIdx' = 1
    /\ futures' = <<>>
    /\ merged' = {}
    /\ result' = <<>>

\* The call ends here with the effect eff of a flow method.
Finish(op, args, eff, hdr) ==
    /\ call' = NewCall(op, args)
    /\ pc' = "done"
    /\ outcome' = eff.exc
    /\ detail' = Carried(eff)
    /\ access_token' = eff.token
    /\ issued' = eff.issued
    /\ tokenCalls' = eff.calls
    /\ header' = hdr
    /\ NoFanout

\* Time passes.
Tick ==
    /\ now < MaxClock
    /\ now' = now + 1
    /\ UNCHANGED <<flow, scopes, state, call, pc, outcome, detail>>
    /\ UNCHANGED tokenVars
    /\ UNCHANGED fanVars

\* auth.get_access_token(code) / auth.get_access_token()
GetAccessToken ==
    /\ Idle
    /\ \E r \in get_access_token(flow, "code", access_token, issued) :
          Finish("get_access_token", [code |-> "code"], r, header)
    /\ UNCHANGED <<now, flow, scopes, state>>

\* auth.refresh_access_token(refresh_token=...) / auth.refresh_access_token()
RefreshAccessToken ==
    /\ Idle
    /\ \E rt \in IF flow = "ClientCredentials" THEN {NoneStr}
                 ELSE {NoneStr, "rt_explicit"} :
          \E r \in refresh_access_token(flow, rt, access_token, now, issued) :
              Finish("refresh_access_token", [refresh_token |-> rt], r, header)
    /\ UNCHANGED <<now, flow, scopes, state>>

\* APIReference.__init__(authorization_flow): the header is built from
\* self.auth.access_token.access_token, an AttributeError on None.
NewClient ==
    /\ Idle
    /\ header = NoClient
    /\ IF access_token = NoToken
       THEN Finish("APIReference", EmptyDict,
                   Effect(access_token, issued, <<>>, NoToken, "AttributeError"), header)
       ELSE Finish("APIReference", EmptyDict,
                   Effect(access_token, issued, <<>>, NoToken, "return"),
                   access_token.access_token)
    /\ UNCHANGED <<now, flow, scopes, state>>

\* client.check_access_token()
CheckAccessToken ==
    /\ Idle
    /\ header # NoClient
    /\ \E c \in check_access_token(flow, access_token, header, now, issued) :
          Finish("check_access_token", EmptyDict, c.eff, c.header)
    /\ UNCHANGED <<now, flow, scopes, state>>

\* auth.access_token.valid(), called on the stored token
Valid ==
    /\ Idle
    /\ access_token # NoToken
    /\ call' = NewCall("valid", EmptyDict)
    /\ pc' = "done"
    /\ outcome' = "return"
    /\ detail' = NoDetail
    /\ tokenCalls' = <<>>
    /\ result' = <<valid(access_token, now)>>
    /\ UNCHANGED <<now, flow, scopes, state, access_token, header, issued,
                   probe, params, loopIdx, futures, merged>>

\* A flow object right after construction, no client yet.
InitAuth ==
    /\ now = ImportTime
    /\ flow \in Flows
    /\ scopes = IF flow = "ClientCredentials" THEN {}
                ELSE {USER_LIBRARY_READ, USER_LIBRARY_MODIFY}
    /\ state = NoneStr
    /\ access_token = NoToken
    /\ header = NoClient
    /\ issued = 0
    /\ call = NoCall
    /\ pc = "idle"
    /\ outcome = "none"
    /\ detail = NoDetail
    /\ tokenCalls = <<>>
    /\ probe = NoRequest
    /\ params = EmptyDict
    /\ loopIdx = 1
    /\ futures = <<>>
    /\ merged = {}
    /\ result = <<>>

NextAuth ==
    \/ Tick
    \/ GetAccessToken
    \/ RefreshAccessToken
    \/ NewClient
    \/ CheckAccessToken
    \/ Valid

SpecAuth == InitAuth /\ [][NextAuth]_vars

-----------------------------------------------------------------------------
(* Resource operations of Album and Artist *)

PageSize == 50
AlbumChunk == 20
ArtistChunk == 100

PagedOps == {"get_album_tracks", "get_users_saved_albums", "get_new_releases",
             "get_artist_albums"}
BatchOps == {"get_albums", "save_albums_for_user", "remove_users_saved_albums",
             "check_users_saved_albums", "get_artists"}
AllTracksOps == {"get_album", "get_album_tracks"}

\* Range with the end included
Range_inclusive(a, b, step) ==
    [i \in 1..(IF b >= a THEN (b - a) \div step + 1 ELSE 0) |-> a + (i - 1) * step]

\* range(a, b, step) as a list
Range(a, b, step) ==
    [i \in 1..(IF b > a THEN (b - a + step - 1) \div step ELSE 0) |-> a + (i - 1) * step]

\* Slice taking one ID too many
Slice_oneMore(ids, index, n) == SubSeq(ids, index + 1, Min(index + n + 1, Len(ids)))

\* ids[index : index + n]
Slice(ids, index, n) == SubSeq(ids, index + 1, Min(index + n, Len(ids)))

\* ChecksScopes of an operation that forgot its scope check
ChecksScopes_none(op) == FALSE

\* required_scopes of the operations that call check_scopes
RequiredScopes(op) ==
    CASE op \in {"get_users_saved_albums", "check_users_saved_albums"} -> {USER_LIBRARY_READ}
      [] op \in {"save_albums_for_user", "remove_users_saved_albums"} -> {USER_LIBRARY_MODIFY}
      [] OTHER -> {}

ChecksScopes(op) ==
    op \in {"get_users_saved_albums", "check_users_saved_albums",
            "save_albums_for_user", "remove_users_saved_albums"}

\* The url of the operation, relative to base_url, before "?" and the query.
\* get_album appends the market with "&" to the path.
Url(op, a) ==
    CASE op = "get_album" ->
            IF a.market # NoneStr THEN "albums/{id}&market={market}" ELSE "albums/{id}"
      [] op = "get_album_tracks" -> "albums/{id}/tracks"
      [] op = "get_users_saved_albums" -> "me/albums"
      [] op = "get_new_releases" -> "browse/new-releases"
      [] op = "get_artist_albums" -> "artists/{id}/albums"
      [] op = "get_albums" -> "albums"
      [] op = "get_artists" -> "artists"
      [] op = "check_users_saved_albums" -> "me/albums/contains"
      [] OTHER -> "me/albums"

Method(op) ==
    CASE op = "save_albums_for_user" -> "PUT"
      [] op = "remove_users_saved_albums" -> "DELETE"
      [] OTHER -> "GET"

ChunkSize(op) == IF op = "get_artists" THEN ArtistChunk ELSE AlbumChunk

\* The params dict an operation builds before its first request.
FirstParams(op, a) ==
    LET page == ("limit" :> (IF a.limit = None THEN PageSize ELSE Min(a.limit, PageSize)))
                @@ ("offset" :> a.offset)
        groups == IF op = "get_artist_albums" /\ a.include_groups
                  THEN SetKey(page, "include_groups", "album,single,appears_on,compilation")
                  ELSE page
    IN  CASE op \in {"get_album_tracks", "get_users_saved_albums", "get_artist_albums"} ->
                IF a.market # NoneStr THEN SetKey(groups, "market", a.market) ELSE groups
          [] op = "get_new_releases" -> page
          [] op = "get_albums" ->
                IF a.market # NoneStr THEN SetKey(EmptyDict, "market", a.market)
                ELSE EmptyDict
          [] OTHER -> EmptyDict

\* "(limit is None or limit > 50) and total > 50"; get_album tests the total only.
NeedsFollowUps(op, a) ==
    IF op = "get_album" THEN a.total > PageSize
    ELSE (a.limit = None \/ a.limit > PageSize) /\ a.total > PageSize

\* The values the submission loop runs over.
Plan(op, a) ==
    CASE op \in BatchOps -> Range(0, Len(a.ids), ChunkSize(op))
      [] op = "get_artist_albums" ->
            Range(PageSize, IF a.limit = None THEN a.total ELSE a.limit, PageSize)
      [] OTHER -> Range(PageSize, a.total, PageSize)

\* The params dict at the start of the submission loop: _get_all_tracks
\* starts a dict of its own, the other paginated operations go on with theirs.
LoopParams(op, d) ==
    IF op \in AllTracksOps THEN ("limit" :> PageSize) ELSE d

\* The params dict after the assignment of iteration v, and the request the
\* iteration submits (the url is formatted in the calling thread, before
\* executor.submit).
StepParams(op, a, d, v) ==
    CASE op \in PagedOps \cup {"get_album"} -> SetKey(d, "offset", v)
      [] op = "get_albums" -> SetKey(d, "ids", Slice(a.ids, v, AlbumChunk))
      [] op \in {"get_artists", "check_users_saved_albums"} ->
            ("ids" :> Slice(a.ids, v, ChunkSize(op)))
      [] OTHER -> d

Request(op, a, query, v) ==
    [method |-> Method(op),
     url |-> Url(op, a),
     query |-> query,
     json |-> IF op \in {"save_albums_for_user", "remove_users_saved_albums"}
              THEN Slice(a.ids, v, AlbumChunk) ELSE <<>>]

-----------------------------------------------------------------------------
(* The resource endpoints (collaborator): the body of a 200 answer.  The   *)
(* catalog behind a paginated endpoint holds the items 0 .. total-1.       *)

PageItems(total, offset, limit) ==
    [i \in 1..(IF Min(offset + limit, total) > offset
               THEN Min(offset + limit, total) - offset ELSE 0) |-> offset + i - 1]

Body(req, a) ==
    CASE req.url \in {"albums/{id}/tracks", "browse/new-releases", "artists/{id}/albums"}
            \/ (req.url = "me/albums" /\ req.method = "GET") ->
            [kind |-> "page",
             items |-> PageItems(a.total, req.query["offset"], req.query["limit"]),
             total |-> a.total]
      [] req.url \in {"albums/{id}", "albums/{id}&market={market}"} ->
            [kind |-> "album",
             items |-> PageItems(a.total, 0, PageSize),
             total |-> a.total]
      [] req.url \in {"albums", "artists"} ->
            [kind |-> "several", items |-> req.query["ids"], total |-> 0]
      [] req.url = "me/albums/contains" ->
            [kind |-> "booleans",
             items |-> [i \in 1..Len(req.query["ids"]) |-> req.query["ids"][i] \in a.library],
             total |-> 0]
      [] OTHER -> [kind |-> "empty", items |-> <<>>, total |-> 0]

\* Tracks(**data), UserSavedAlbums(**data), Albums(**data): a page decodes,
\* anything else lacks the required fields of Page.
DecodesAsPage(data) == data.kind = "page"

\* for id, exists in zip(ids, data): result[id] = exists
ZipInto(d, ids, data) ==
    LET n == Min(Len(ids), Len(data))
        keys == {ids[j] : j \in 1..n}
        last(k) == CHOOSE j \in 1..n : ids[j] = k /\ \A m \in j+1..n : ids[m] # k
    IN  [k \in DOMAIN d \cup keys |-> IF k \in keys THEN data[last(k)] ELSE d[k]]

\* The ids the merge loop of check_users_saved_albums zips a group's answer with.
ZipKeys(a, req) == a.ids

\* extend putting the new items in front
Extend_front(list, items) == items \o list

\* list.extend(items), as in result.extend(tracks.items)
Extend(list, items) == list \o items

\* The order in which the merge loop may take the futures next: as_completed
\* runs after the executor's shutdown, with every future finished, and
\* yields them in the iteration order of a set of Future objects.
NextYielded(n, done) == (1..n) \ done

-----------------------------------------------------------------------------
(* A resource operation, step by step *)

\* Entry: check_scopes (where the operation has it), then check_access_token.
Begin(Inputs) ==
    /\ Idle
    /\ header # NoClient
    /\ \E in \in Inputs :
        LET op == in.op
            a == in.args
            sc == IF ChecksScopes(op) THEN check_scopes(flow, scopes, RequiredScopes(op))
                  ELSE [exc |-> "return", detail |-> NoDetail]
        IN  /\ call' = NewCall(op, a)
            /\ probe' = NoRequest
            /\ loopIdx' = 1
            /\ futures' = <<>>
            /\ merged' = {}
            /\ result' = <<>>
            /\ IF sc.exc # "return"
               THEN /\ pc' = "done"
                    /\ outcome' = sc.exc
                    /\ detail' = sc.detail
                    /\ params' = EmptyDict
                    /\ tokenCalls' = <<>>
                    /\ UNCHANGED <<access_token, header, issued>>
               ELSE \E c \in check_access_token(flow, access_token, header, now, issued) :
                    /\ access_token' = c.eff.token
                    /\ issued' = c.eff.issued
                    /\ tokenCalls' = c.eff.calls
                    /\ header' = c.header
                    /\ detail' = Carried(c.eff)
                    /\ IF c.eff.exc # "return"
                       THEN pc' = "done" /\ outcome' = c.eff.exc /\ params' = EmptyDict
                       ELSE /\ pc' = IF op \in BatchOps THEN "submit" ELSE "probe"
                            /\ outcome' = "none"
                            /\ params' = FirstParams(op, a)
    /\ UNCHANGED <<now, flow, scopes, state>>

\* The bodies a rejected request can come with: a JSON object with an error
\* field, a JSON object without one, and text that is no JSON (the page of a
\* gateway).
ErrorBodies == {"error_field", "no_error_field", "not_json"}

\* The bodies of the answers to a request, by status
Bodies(status) == IF status = 200 THEN {"json"} ELSE ErrorBodies

\* What a response with a status other than 200 ends the operation with:
\*   data = response.json()        (json.JSONDecodeError on text that is no JSON)
\*   error = data.get("error", "unknown")
\*   raise ResponseError(error)
RaiseForStatus(body) ==
    IF body = "not_json" THEN [exc |-> "JSONDecodeError", detail |-> NoDetail]
    ELSE [exc |-> "ResponseError",
          detail |-> Error(IF body = "error_field" THEN "server_error" ELSE "unknown")]

\* The first request, made by the calling thread itself.
Probe ==
    /\ pc = "probe"
    /\ \E status \in {200, 500} : \E body \in Bodies(status) :
        /\ probe' = [req |-> Request(call.op, call.args, params, 0),
                     status |-> status, body |-> body, bearer |-> header]
        /\ IF status # 200
           THEN /\ pc' = "done"
                /\ outcome' = RaiseForStatus(body).exc
                /\ detail' = RaiseForStatus(body).detail
                /\ UNCHANGED <<result, params>>
           ELSE /\ result' = Body(probe'.req, call.args).items
                /\ detail' = NoDetail
                /\ IF NeedsFollowUps(call.op, call.args)
                   THEN /\ pc' = "submit"
                        /\ outcome' = "none"
                        /\ params' = LoopParams(call.op, params)
                   ELSE /\ pc' = "done"
                        /\ outcome' = "return"
                        /\ UNCHANGED params
    /\ UNCHANGED <<now, flow, scopes, state, call, loopIdx, futures, merged>>
    /\ UNCHANGED tokenVars

\* One iteration of "for ... : executor.submit(...); futures.append(future)"
Submit ==
    /\ pc = "submit"
    /\ loopIdx <= Len(Plan(call.op, call.args))
    /\ LET v == Plan(call.op, call.args)[loopIdx]
       IN  /\ params' = StepParams(call.op, call.args, params, v)
           /\ futures' = Append(futures,
                                [req |-> Request(call.op, call.args, params', v),
                                 state |-> "pending", status |-> 0, body |-> "unread",
                                 bearer |-> NoClient, sent |-> NoRequest])
    /\ loopIdx' = loopIdx + 1
    /\ UNCHANGED <<now, flow, scopes, state, call, pc, outcome, detail, probe, merged, result>>
    /\ UNCHANGED tokenVars

\* Respond with a worker that runs check_access_token before it sends
Respond_checking(i) ==
    /\ pc = "submit"
    /\ futures[i].state = "pending"
    /\ \E c \in check_access_token(flow, access_token, header, now, issued) :
        /\ access_token' = c.eff.token
        /\ issued' = c.eff.issued
        /\ tokenCalls' = tokenCalls \o c.eff.calls
        /\ header' = c.header
        /\ \E status \in {200, 500} :
              futures' = [futures EXCEPT ![i].state = "done", ![i].status = status,
                                         ![i].bearer = c.header,
                                         ![i].sent = futures[i].req]
    /\ UNCHANGED <<now, flow, scopes, state, call, pc, outcome, detail, probe, params,
                   loopIdx, merged, result>>

\* Respond with a worker that formats the query when it sends, from the
\* params dict as the submission loop has left it by then
Respond_sharedParams(i) ==
    /\ pc = "submit"
    /\ futures[i].state = "pending"
    /\ \E status \in {200, 500} :
          futures' = [futures EXCEPT ![i].state = "done", ![i].status = status,
                                     ![i].bearer = header,
                                     ![i].sent = [futures[i].req EXCEPT !.query = params]]
    /\ UNCHANGED <<now, flow, scopes, state, call, pc, outcome, detail, probe, params,
                   loopIdx, merged, result>>
    /\ UNCHANGED tokenVars

\* A worker thread sends the request of future i and gets its answer.  The
\* worker calls self.client.get (put, delete) with the arguments bound by
\* executor.submit: the url string and the json body of its own iteration.
Respond(i) ==
    /\ pc = "submit"
    /\ futures[i].state = "pending"
    /\ \E status \in {200, 500} :
          futures' = [futures EXCEPT ![i].state = "done", ![i].status = status,
                                     ![i].bearer = header,
                                     ![i].sent = futures[i].req]
    /\ UNCHANGED <<now, flow, scopes, state, call, pc, outcome, detail, probe, params,
                   loopIdx, merged, result>>
    /\ UNCHANGED tokenVars

\* Join with an executor that is left without waiting (shutdown(wait=False))
Join_eager ==
    /\ pc = "submit"
    /\ loopIdx > Len(Plan(call.op, call.args))
    /\ pc' = "merge"
    /\ UNCHANGED <<now, flow, scopes, state, call, outcome, detail>>
    /\ UNCHANGED tokenVars
    /\ UNCHANGED fanVars

\* The end of the with block: ThreadPoolExecutor.__exit__ waits for every
\* submitted future.
Join ==
    /\ pc = "submit"
    /\ loopIdx > Len(Plan(call.op, call.args))
    /\ \A i \in 1..Len(futures) : futures[i].state = "done"
    /\ pc' = "merge"
    /\ UNCHANGED <<now, flow, scopes, state, call, outcome, detail>>
    /\ UNCHANGED tokenVars
    /\ UNCHANGED fanVars

\* Merge with a merge loop that submits a rejected request again and waits
\* for its new answer
Merge_retrying(i) ==
    /\ pc = "merge"
    /\ i \in NextYielded(Len(futures), merged)
    /\ IF futures[i].status # 200
       THEN /\ futures' = [futures EXCEPT ![i].state = "pending", ![i].status = 0]
            /\ pc' = "submit"
            /\ UNCHANGED <<outcome, detail, result, merged>>
       ELSE LET f == futures[i]
                data == Body(f.sent, call.args)
            IN  /\ futures' = [futures EXCEPT ![i].body = "json"]
                /\ merged' = merged \cup {i}
                /\ IF call.op \in PagedOps \cup {"get_album"} /\ ~DecodesAsPage(data)
                   THEN /\ pc' = "done" /\ outcome' = "ValidationError" /\ result' = <<>>
                        /\ UNCHANGED detail
                   ELSE /\ UNCHANGED <<pc, outcome, detail>>
                        /\ result' =
                             CASE call.op \in {"save_albums_for_user",
                                               "remove_users_saved_albums"} -> result
                               [] call.op = "check_users_saved_albums" ->
                                     ZipInto(result, ZipKeys(call.args, f.req), data.items)
                               [] OTHER -> Extend(result, data.items)
    /\ UNCHANGED <<now, flow, scopes, state, call, probe, params, loopIdx>>
    /\ UNCHANGED tokenVars

\* One iteration of "for future in as_completed(futures)".  The body of the
\* answer is read here, by future.result().json(), and nowhere before.
Merge(i) ==
    /\ pc = "merge"
    /\ i \in NextYielded(Len(futures), merged)
    /\ \E body \in Bodies(futures[i].status) :
       LET f == futures[i]
           data == Body(f.sent, call.args)
       IN  /\ futures' = [futures EXCEPT ![i].body = body]
           /\ IF f.status # 200
              THEN /\ pc' = "done"
                   /\ outcome' = RaiseForStatus(body).exc
                   /\ detail' = RaiseForStatus(body).detail
                   /\ result' = <<>>
              ELSE IF call.op \in PagedOps \cup {"get_album"} /\ ~DecodesAsPage(data)
              THEN /\ pc' = "done" /\ outcome' = "ValidationError" /\ result' = <<>>
                   /\ UNCHANGED detail
              ELSE /\ UNCHANGED <<pc, outcome, detail>>
                   /\ result' =
                        CASE call.op \in {"save_albums_for_user",
                                          "remove_users_saved_albums"} -> result
                          [] call.op = "check_users_saved_albums" ->
                                ZipInto(result, ZipKeys(call.args, f.req), data.items)
                          [] OTHER -> Extend(result, data.items)
    /\ merged' = merged \cup {i}
    /\ UNCHANGED <<now, flow, scopes, state, call, probe, params, loopIdx>>
    /\ UNCHANGED tokenVars

\* The loop is over: return result (None for save and remove).
Return ==
    /\ pc = "merge"
    /\ merged = 1..Len(futures)
    /\ pc' = "done"
    /\ outcome' = "return"
    /\ UNCHANGED <<now, flow, scopes, state, call, detail>>
    /\ UNCHANGED tokenVars
    /\ UNCHANGED fanVars

-----------------------------------------------------------------------------
(* The inputs of the resource operations *)

NoArgs == [ids |-> <<>>, market |-> NoneStr, limit |-> None, offset |-> 0,
           total |-> 0, library |-> {}, include_groups |-> FALSE]

\* ID lists: n distinct IDs, counted up or down
IdList(n, up) == [i \in 1..n |-> IF up THEN i ELSE n + 1 - i]

\* The number of tracks of the album of test_get_album_tracks
ScenarioTotal == 199

PagedInputs ==
    {[op |-> op,
      args |-> [NoArgs EXCEPT !.total = t, !.limit = l, !.offset = o, !.market = m,
                              !.include_groups = g]] :
        op \in PagedOps, t \in (0..MaxTotal) \cup {ScenarioTotal},
        l \in {None, 20, 51, 120}, o \in {0, 10},
        m \in {NoneStr, "IN"}, g \in BOOLEAN}

AlbumInputs ==
    {[op |-> "get_album", args |-> [NoArgs EXCEPT !.total = t, !.market = m]] :
        t \in 0..MaxTotal, m \in {NoneStr, "IN"}}

BatchInputs ==
    {[op |-> op,
      args |-> [NoArgs EXCEPT !.ids = IdList(n, up), !.market = m, !.library = lib]] :
        op \in BatchOps \ {"get_artists"}, n \in 0..MaxIds, up \in BOOLEAN,
        m \in {NoneStr, "IN"}, lib \in {{}, {2, 21}}}

ArtistInputs ==
    {[op |-> "get_artists", args |-> [NoArgs EXCEPT !.ids = IdList(n, up)]] :
        n \in 0..MaxArtistIds, up \in BOOLEAN}

\* The inputs an operation reads: the others stay at their defaults.
Reads(in) ==
    /\ in.op = "get_new_releases" => in.args.market = NoneStr
    /\ in.op # "get_artist_albums" => ~in.args.include_groups
    /\ in.op # "get_albums" /\ in.op \in BatchOps => in.args.market = NoneStr
    /\ in.op # "check_users_saved_albums" => in.args.library = {}

Inputs == {in \in PagedInputs \cup AlbumInputs \cup BatchInputs \cup ArtistInputs : Reads(in)}

\* A client over an AuthorizationCode flow that holds a valid token.
Init ==
    /\ now = ImportTime
    /\ flow = "AuthorizationCode"
    /\ scopes = {USER_LIBRARY_READ, USER_LIBRARY_MODIFY}
    /\ state = NoneStr
    /\ access_token = [access_token |-> 1, expires_in |-> 1, refresh_token |-> "rt_code",
                       created_at |-> ImportTime]
    /\ header = 1
    /\ issued = 1
    /\ call = NoCall
    /\ pc = "idle"
    /\ outcome = "none"
    /\ detail = NoDetail
    /\ tokenCalls = <<>>
    /\ probe = NoRequest
    /\ params = EmptyDict
    /\ loopIdx = 1
    /\ futures = <<>>
    /\ merged = {}
    /\ result = <<>>

\* A call leaves the client as it found it (the token stays valid, no time
\* passes), so the calls of this specification are each the first one.
FirstCall == pc = "idle" /\ Begin(Inputs)

Next ==
    \/ FirstCall
    \/ Probe
    \/ Submit
    \/ \E i \in 1..Len(futures) : Respond(i)
    \/ Join
    \/ \E i \in 1..Len(futures) : Merge(i)
    \/ Return

Spec == Init /\ [][Next]_vars

\* The same, with the scheduling the code relies on: the calling thread
\* keeps running (every statement of the operation is eventually executed),
\* and the transport answers every request a worker sends.
SpecLive ==
    /\ Init
    /\ [][Next]_vars
    /\ WF_vars(Probe)
    /\ WF_vars(Submit)
    /\ WF_vars(\E i \in 1..Len(futures) : Respond(i))
    /\ WF_vars(Join)
    /\ WF_vars(\E i \in 1..Len(futures) : Merge(i))
    /\ WF_vars(Return)

-----------------------------------------------------------------------------
(* The redirect of the authorization server *)

\* The query of a redirect uri: each of code, state and error is absent or
\* present once, possibly with an empty value ("...&state=").
Redirects ==
    UNION {[keys -> {"", "v1", "v2"}] : keys \in SUBSET {"code", "state", "error"}}

\* _parse_query_params(uri): parse_qs(urlparse(uri).query) maps each key to
\* the list of its values and leaves out the pairs whose value is blank.
parse_query_params(query) ==
    [key \in {k \in DOMAIN query : query[k] # ""} |-> <<query[key]>>]

\* query_params.get(key, None)
Get(query_params, key) ==
    IF key \in DOMAIN query_params THEN query_params[key] ELSE <<>>

\* parse_code(uri): the code, or AuthorizationFailed(error[0] if error else None)
parse_code(query) ==
    LET query_params == parse_query_params(query)
        code == Get(query_params, "code")
        error == Get(query_params, "error")
    IN  IF code = <<>>
        THEN [exc |-> "AuthorizationFailed",
              detail |-> Error(IF error # <<>> THEN error[1] ELSE NoneStr),
              value |-> NoneStr]
        ELSE [exc |-> "return", detail |-> NoDetail, value |-> code[1]]

\* parse_state(uri): the state, or StateNotFound
parse_state(query) ==
    LET query_params == parse_query_params(query)
        st == Get(query_params, "state")
    IN  IF st = <<>>
        THEN [exc |-> "StateNotFound", detail |-> NoDetail, value |-> NoneStr]
        ELSE [exc |-> "return", detail |-> NoDetail, value |-> st[1]]

\* parse_redirect_uri comparing the states before it looks for the code
parse_redirect_uri_stateFirst(stored, query) ==
    LET code == parse_code(query)
        st == parse_state(query)
    IN  IF st.exc = "return" /\ st.value # stored
        THEN [exc |-> "InvalidState", detail |-> NoDetail, value |-> NoneStr]
        ELSE code

\* parse_redirect_uri comparing the states only when the flow has one
parse_redirect_uri_ifConfigured(stored, query) ==
    LET code == parse_code(query)
        st == parse_state(query)
    IN  IF code.exc # "return" THEN code
        ELSE IF st.exc = "return" /\ stored # NoneStr /\ st.value # stored
        THEN [exc |-> "InvalidState", detail |-> NoDetail, value |-> NoneStr]
        ELSE code

\* AuthorizationCode[PKCE].parse_redirect_uri(uri), self.state being stored:
\*   try:
\*       code = parse_code(uri); state = parse_state(uri)
\*       if state != self.state: raise InvalidState
\*   except StateNotFound: pass
\*   return code
parse_redirect_uri(stored, query) ==
    LET code == parse_code(query)
        st == parse_state(query)
    IN  IF code.exc # "return" THEN code
        ELSE IF st.exc = "return" /\ st.value # stored
        THEN [exc |-> "InvalidState", detail |-> NoDetail, value |-> NoneStr]
        ELSE code

-----------------------------------------------------------------------------
(* A client in use: scope checks, redirects and resource operations while  *)
(* time passes and the token expires                                       *)

\* auth.parse_redirect_uri(uri)
ParseRedirectUri ==
    /\ Idle
    /\ flow # "ClientCredentials"
    /\ \E query \in Redirects :
        LET r == parse_redirect_uri(state, query)
        IN  /\ call' = NewCall("parse_redirect_uri", [query |-> query])
            /\ outcome' = r.exc
            /\ detail' = r.detail
            /\ result' = IF r.exc = "return" THEN <<r.value>> ELSE <<>>
    /\ pc' = "done"
    /\ tokenCalls' = <<>>
    /\ UNCHANGED <<now, flow, scopes, state, access_token, header, issued,
                   probe, params, loopIdx, futures, merged>>

\* client.check_scopes(required_scopes)
CheckScopes ==
    /\ Idle
    /\ header # NoClient
    /\ \E required \in SUBSET {USER_LIBRARY_READ, USER_LIBRARY_MODIFY} :
        LET r == check_scopes(flow, scopes, required)
        IN  /\ call' = NewCall("check_scopes", [required_scopes |-> required])
            /\ outcome' = r.exc
            /\ detail' = r.detail
    /\ pc' = "done"
    /\ tokenCalls' = <<>>
    /\ UNCHANGED <<now, flow, scopes, state, access_token, header, issued>>
    /\ UNCHANGED fanVars

\* The four operations that check scopes and one that does not, on one ID
\* or two groups of IDs, on an empty or a two-page listing.
OpsInputs ==
    {[op |-> op, args |-> [NoArgs EXCEPT !.ids = IdList(n, TRUE)]] :
        op \in BatchOps \ {"get_albums", "get_artists"}, n \in {1, AlbumChunk + 1}}
    \cup
    {[op |-> op, args |-> [NoArgs EXCEPT !.total = t]] :
        op \in {"get_users_saved_albums", "get_album_tracks"}, t \in {0, PageSize + 1}}

\* A client over any flow, with any granted scopes and with or without a
\* state, that holds a valid token.
InitOps ==
    /\ now = ImportTime
    /\ flow \in Flows
    /\ scopes \in IF flow = "ClientCredentials" THEN {{}}
                   ELSE SUBSET {USER_LIBRARY_READ, USER_LIBRARY_MODIFY}
    /\ state \in IF flow = "ClientCredentials" THEN {NoneStr} ELSE {NoneStr, "v1"}
    /\ access_token = [access_token |-> 1, expires_in |-> 1,
                       refresh_token |-> IF flow = "ClientCredentials" THEN NoneStr
                                         ELSE "rt_code",
                       created_at |-> ImportTime]
    /\ header = 1
    /\ issued = 1
    /\ call = NoCall
    /\ pc = "idle"
    /\ outcome = "none"
    /\ detail = NoDetail
    /\ tokenCalls = <<>>
    /\ probe = NoRequest
    /\ params = EmptyDict
    /\ loopIdx = 1
    /\ futures = <<>>
    /\ merged = {}
    /\ result = <<>>

\* The calls of this specification do not depend on an earlier call: each
\* is the first one of the client, made at any instant.
FirstParse == pc = "idle" /\ ParseRedirectUri
FirstCheck == pc = "idle" /\ CheckScopes
FirstOperation == pc = "idle" /\ Begin(OpsInputs)

NextOps ==
    \/ Tick
    \/ FirstParse
    \/ FirstCheck
    \/ FirstOperation
    \/ Probe
    \/ Submit
    \/ \E i \in 1..Len(futures) : Respond(i)
    \/ Join
    \/ \E i \in 1..Len(futures) : Merge(i)
    \/ Return

SpecOps == InitOps /\ [][NextOps]_vars

-----------------------------------------------------------------------------
(* Claims about the fan-out, checked under Spec *)

RECURSIVE ConcatBodies(_, _)
\* The items of the answers of futures 1..n, in submission order
ConcatBodies(fs, n) ==
    IF n = 0 THEN <<>>
    ELSE ConcatBodies(fs, n - 1) \o Body(fs[n].req, call.args).items

RECURSIVE ConcatGroups(_, _)
\* The ID groups of the requests of futures 1..n, in submission order
ConcatGroups(fs, n) ==
    IF n = 0 THEN <<>>
    ELSE ConcatGroups(fs, n - 1)
            \o (IF fs[n].req.method = "GET" THEN fs[n].req.query["ids"] ELSE fs[n].req.json)

GroupOf(f) == IF f.req.method = "GET" THEN f.req.query["ids"] ELSE f.req.json

Returned == pc = "done" /\ outcome = "return"

SomeFailed == \E i \in 1..Len(futures) : futures[i].state = "done" /\ futures[i].status # 200

\* C1: a paginated fetch that fans out returns the probe page followed by
\* the follow-up pages in increasing offset order (the order of submission),
\* whatever the order in which the sub-requests complete and are merged.
C1_PagesInOffsetOrder ==
    (Returned /\ call.op \in PagedOps /\ Len(futures) >= 1)
        => result = Body(probe.req, call.args).items \o ConcatBodies(futures, Len(futures))

\* C2: get_albums and get_artists return the i-th result for the i-th
\* input ID, whatever the order in which the groups complete and are merged.
C2_BatchResultsInInputOrder ==
    (Returned /\ call.op \in {"get_albums", "get_artists"})
        => result = call.args.ids

\* C3: check_users_saved_albums returns the map that pairs every input ID
\* with the boolean the server gave for it.
C3_CheckSavedPairsOwnGroup ==
    (Returned /\ call.op = "check_users_saved_albums")
        => result = [id \in {call.args.ids[j] : j \in 1..Len(call.args.ids)} |->
                        id \in call.args.library]

\* C4: a fan-out with at least one sub-response of status other than 200
\* ends in ResponseError and returns nothing.
C4_AnyFailureFailsAll ==
    (pc = "done" /\ SomeFailed)
        => outcome = "ResponseError" /\ result = <<>>

\* C5: a paginated fetch of everything (limit None) from offset 0 makes one
\* request when total <= 50 and 1 + ceil((total - 50) / 50) requests when
\* total > 50, the follow-ups at offsets 50, 100, ... < total; on success
\* the result holds exactly the total items of the catalog.
C5_RequestCountAndTotal ==
    (pc \in {"merge", "done"} /\ call.op \in PagedOps /\ call.args.limit = None
        /\ call.args.offset = 0 /\ probe # NoRequest /\ probe.status = 200)
        => LET total == call.args.total
               n == Len(futures)
           IN  /\ total <= PageSize => n = 0
               /\ total > PageSize => 1 + n = 1 + ((total - PageSize) + (PageSize - 1)) \div PageSize
               /\ \A i \in 1..n : /\ futures[i].req.query["offset"] = PageSize * i
                                  /\ futures[i].req.query["offset"] < total
                                  /\ futures[i].state = "done"
               /\ outcome = "return" =>
                    /\ Len(result) = total
                    /\ {result[i] : i \in 1..Len(result)} = 0..(total - 1)

C5_Witness ==
    /\ Returned
    /\ call.op = "get_album_tracks"
    /\ call.args.limit = None
    /\ call.args.offset = 0
    /\ call.args.total = MaxTotal
    /\ Len(futures) = 3
    /\ Len(result) = MaxTotal

\* C6: a batch operation over L IDs with chunk size C makes ceil(L / C)
\* requests; their ID groups are the consecutive slices of the input, each
\* of at most C IDs, and concatenated in group order they give the input;
\* with L = 0 no request is made and the empty collection is returned.
C6_ChunksPartitionInput ==
    (pc \in {"merge", "done"} /\ call.op \in BatchOps)
        => LET ids == call.args.ids
               L == Len(ids)
               C == IF call.op = "get_artists" THEN 100 ELSE 20
               n == Len(futures)
           IN  /\ n = (L + C - 1) \div C
               /\ \A i \in 1..n :
                    /\ Len(GroupOf(futures[i])) <= C
                    /\ Len(GroupOf(futures[i])) >= 1
                    /\ \A j \in 1..Len(GroupOf(futures[i])) :
                          GroupOf(futures[i])[j] = ids[(i - 1) * C + j]
                    /\ futures[i].state = "done"
               /\ ConcatGroups(futures, n) = ids
               /\ L = 0 => (pc = "done" => outcome = "return" /\ result = <<>>)

C6_Witness ==
    /\ Returned
    /\ call.op = "save_albums_for_user"
    /\ Len(call.args.ids) = 45
    /\ Len(futures) = 3
    /\ Len(futures[3].req.json) = 5

\* The calling thread has read a response with a status other than 200,
\* whose body was body: the first response, or one taken in the merge loop.
FailedWith(body) ==
    \/ probe # NoRequest /\ probe.status # 200 /\ probe.body = body
    \/ \E i \in merged : futures[i].status # 200 /\ futures[i].body = body

\* C20: a response with a status other than 200, of the first request or of
\* a sub-request, ends the operation in ResponseError and in no other
\* exception; the error it carries is the error field of the body, and
\* "unknown" when the body has no error field or is no JSON.
C20_FailureRaisesResponseError ==
    \A body \in ErrorBodies :
        (pc = "done" /\ FailedWith(body))
            => /\ outcome = "ResponseError"
               /\ detail.error = IF body = "error_field" THEN "server_error"
                                 ELSE "unknown"

\* The submission loop of the running operation is over: every follow-up
\* request it makes has been submitted.
Submitted ==
    /\ pc \in {"merge", "done"}
    /\ probe # NoRequest
    /\ probe.status = 200

\* The offsets of the follow-up requests
FollowUpOffsets == {futures[i].req.query["offset"] : i \in 1..Len(futures)}

\* C21: a paginated fetch with a numeric limit above 50, on a listing of
\* more than 50 items, requests after the probe exactly the offsets 50, 100,
\* ... below limit, each once; this holds for the four paginated operations.
C21_FollowUpsBelowLimit ==
    (Submitted /\ call.op \in PagedOps /\ call.args.limit # None
        /\ call.args.limit > PageSize /\ call.args.total > PageSize)
        => /\ FollowUpOffsets =
                {o \in PageSize..(call.args.limit - 1) : o % PageSize = 0}
           /\ Cardinality(FollowUpOffsets) = Len(futures)

\* C22: a paginated fetch called with a numeric limit returns at most limit
\* items, whatever the limit and the total.
C22_AtMostLimitItems ==
    (Returned /\ call.op \in PagedOps /\ call.args.limit # None)
        => Len(result) <= call.args.limit

\* C23: get_album returns an album with exactly total tracks; with more
\* than 50 tracks the follow-ups go to the album's track-list endpoint, at
\* offsets 50, 100, ... below total, and every answer being 200 the call
\* returns.
C23_AlbumHasAllTracks ==
    (pc = "done" /\ call.op = "get_album" /\ probe.status = 200
        /\ \A i \in 1..Len(futures) : futures[i].status = 200)
        => /\ outcome = "return"
           /\ Len(result) = call.args.total
           /\ \A i \in 1..Len(futures) :
                 /\ futures[i].req.url = "albums/{id}/tracks"
                 /\ futures[i].req.query["offset"] = PageSize * i
                 /\ futures[i].req.query["offset"] < call.args.total

\* The number of items of the probe page: the listing from the offset of
\* the call on, at most 50 of them and at most limit.
ProbeCount ==
    LET first == IF call.args.limit = None THEN 50
                 ELSE IF call.args.limit < 50 THEN call.args.limit ELSE 50
        end == IF call.args.offset + first < call.args.total
               THEN call.args.offset + first ELSE call.args.total
    IN  IF end > call.args.offset THEN end - call.args.offset ELSE 0

\* C24: a paginated fetch that returns has the items of the probe page at
\* the first positions of its result, in the order of the page, whatever
\* the order in which the follow-ups were merged; fetching all of a listing
\* of 199 items makes follow-ups at offsets 50, 100 and 150 and returns 199
\* items, of which the first is the first item of the probe page.
C24_ProbePageFirst ==
    (Returned /\ call.op \in PagedOps)
        => /\ Len(result) >= ProbeCount
           /\ \A i \in 1..ProbeCount : result[i] = call.args.offset + i - 1
           /\ (call.args.total = 199 /\ call.args.limit = None /\ call.args.offset = 0)
                => /\ Len(futures) = 3
                   /\ FollowUpOffsets = {50, 100, 150}
                   /\ Len(result) = 199
                   /\ result[1] = 0

\* All 199 tracks of an album were fetched, and the page of offset 150 was
\* merged before the page of offset 50.
C24_Witness ==
    /\ Returned
    /\ call.op = "get_album_tracks"
    /\ call.args.total = 199
    /\ call.args.limit = None
    /\ call.args.offset = 0
    /\ Len(result) = 199
    /\ result[51] = 150

\* The IDs of the i-th group of c of the input IDs
GroupIds(i, c) ==
    SubSeq(call.args.ids, (i - 1) * c + 1,
           IF i * c < Len(call.args.ids) THEN i * c ELSE Len(call.args.ids))

\* The request a worker sent for future i is the one of the i-th iteration
\* of the submission loop.
SentOwn(i) ==
    LET sent == futures[i].sent
    IN  CASE call.op \in PagedOps \cup {"get_album"} ->
                sent.query["offset"] = PageSize * i
          [] call.op \in {"save_albums_for_user", "remove_users_saved_albums"} ->
                sent.json = GroupIds(i, 20)
          [] call.op = "get_artists" -> sent.query["ids"] = GroupIds(i, 100)
          [] OTHER -> sent.query["ids"] = GroupIds(i, 20)

\* C29: every sub-request of a fan-out is sent with the offset or the ID
\* group of its own iteration, however the workers interleave with the
\* submission loop that goes on assigning params; when the loop is over,
\* each planned offset or group has been requested exactly once.
C29_EachRequestOwnIteration ==
    /\ \A i \in 1..Len(futures) : futures[i].state = "done" => SentOwn(i)
    /\ (pc = "merge" \/ (pc = "done" /\ futures # <<>>))
          => /\ Len(futures) = Len(Plan(call.op, call.args))
             /\ \A i \in 1..Len(futures) : futures[i].state = "done"

\* The worker of the first follow-up has sent its request after the
\* submission loop had assigned the offset of the third.
C29_Witness ==
    /\ pc = "submit"
    /\ call.op = "get_users_saved_albums"
    /\ Len(futures) = 3
    /\ params["offset"] = 150
    /\ futures[2].state = "pending"
    /\ futures[1].state = "done"
    /\ futures[1].sent.query["offset"] = 50

\* The calling thread has left the with block of the executor: it is in
\* the merge loop, or the operation has ended after a fan-out.
PastExecutor == pc = "merge" \/ (pc = "done" /\ futures # <<>>)

\* C26: no sub-response is read, and the operation neither returns nor
\* raises, before every sub-request of the plan has been sent and answered:
\* a rejected sub-request cancels none of the others.
C26_AllAnsweredBeforeMerge ==
    /\ (\E i \in 1..Len(futures) : futures[i].body # "unread") => PastExecutor
    /\ PastExecutor
          => /\ Len(futures) = Len(Plan(call.op, call.args))
             /\ \A i \in 1..Len(futures) :
                   /\ futures[i].state = "done"
                   /\ futures[i].sent = futures[i].req
                   /\ futures[i].status \in {200, 500}

\* save_albums_for_user over three groups raised ResponseError on the
\* rejected second group, looked at first; the other two groups were sent
\* and accepted.
C26_Witness ==
    /\ pc = "done"
    /\ call.op = "save_albums_for_user"
    /\ outcome = "ResponseError"
    /\ Len(futures) = 3
    /\ merged = {2}
    /\ futures[2].status = 500
    /\ futures[1].state = "done" /\ futures[1].status = 200
    /\ futures[3].state = "done" /\ futures[3].status = 200

\* C27: with a transport that answers every request, an operation that was
\* started ends, by a return or by an exception; it never has more
\* sub-requests than its plan, and an answered sub-request is not sent again.
C27_OperationTerminates ==
    /\ (pc # "idle") ~> (pc = "done")
    /\ [](pc # "idle" => Len(futures) <= Len(Plan(call.op, call.args)))
    /\ [][\A i \in 1..Len(futures) :
            futures[i].state = "done" => futures'[i].state = "done"]_vars

\* An operation over three sub-requests, one of them rejected, has ended.
C27_Witness ==
    /\ pc = "done"
    /\ Len(futures) = 3
    /\ merged # {}
    /\ \E i \in merged : futures[i].status = 500
    /\ outcome # "return"

\* The parameters of a request other than its offset
FixedParams(req) ==
    [k \in DOMAIN req.query \ {"offset"} |-> req.query[k]]

\* C32: every follow-up request of a paginated fetch goes to the url of the
\* probe with the parameters of the probe, the offset apart: the market and
\* the page limit of the probe among them.
C32_FollowUpsKeepParams ==
    (Submitted /\ call.op \in PagedOps)
        => \A i \in 1..Len(futures) :
              /\ futures[i].req.url = probe.req.url
              /\ FixedParams(futures[i].req) = FixedParams(probe.req)

\* C33: no follow-up request of a paginated fetch asks for an offset at or
\* beyond the total the probe reported, whatever the limit and the total.
C33_NoRequestBeyondTotal ==
    (Submitted /\ call.op \in PagedOps)
        => \A i \in 1..Len(futures) :
              futures[i].req.query["offset"] < call.args.total

\* C34: a paginated fetch of everything from the offset o on returns each
\* catalog item of index o .. total - 1 once, and no other item.
C34_FromOffsetEachItemOnce ==
    (Returned /\ call.op \in PagedOps /\ call.args.limit = None)
        => /\ {result[i] : i \in 1..Len(result)}
                = call.args.offset .. (call.args.total - 1)
           /\ \A i, j \in 1..Len(result) : result[i] = result[j] => i = j

-----------------------------------------------------------------------------
(* Claims about the token state machine, checked under SpecAuth *)

\* The stored token before the call was present and expired / still valid,
\* by the clock at the time of the call.
PreExpired == call.pre # NoToken /\ call.at > call.pre.created_at + call.pre.expires_in
PreValid == call.pre # NoToken /\ call.at <= call.pre.created_at + call.pre.expires_in

\* The token endpoint answered this call's request with success.
EndpointSucceeded == Len(tokenCalls) = 1 /\ tokenCalls[1].status = 200

\* C7: when check_access_token runs on an expired token and the token
\* endpoint answers the refresh with success, the call returns, the flow
\* holds the newly issued token and the header carries its access value.
C7_RefreshUpdatesHeader ==
    (pc = "done" /\ call.op = "check_access_token" /\ PreExpired /\ EndpointSucceeded)
        => /\ outcome = "return"
           /\ access_token # NoToken
           /\ access_token.access_token = issued
           /\ header = issued

\* C8: check_access_token on a flow that holds no token raises
\* AccessTokenNotFound and issues no request.
C8_NoTokenRaisesNotFound ==
    (pc = "done" /\ call.op = "check_access_token" /\ call.pre = NoToken)
        => /\ outcome = "AccessTokenNotFound"
           /\ tokenCalls = <<>>
           /\ probe = NoRequest
           /\ futures = <<>>

\* C9: a token stored by a successful exchange at time t has created_at = t,
\* and is valid from t until t + expires_in; so a successful refresh of a
\* stale token leaves a valid token.
C9_TokenCreatedAtExchange ==
    (pc = "done" /\ call.op \in {"get_access_token", "refresh_access_token"}
        /\ outcome = "return" /\ EndpointSucceeded)
        => /\ access_token # NoToken
           /\ access_token.created_at = call.at
           /\ \A t \in call.at .. call.at + access_token.expires_in :
                 ~(t > access_token.created_at + access_token.expires_in)

\* C10 as stated: for every flow, refresh_access_token on a still valid
\* token makes no token-endpoint call and leaves the stored token unchanged.
C10_RefreshValidIsNoOp ==
    (pc = "done" /\ call.op = "refresh_access_token" /\ PreValid)
        => /\ tokenCalls = <<>>
           /\ access_token = call.pre

\* C10 amended: for AuthorizationCode and AuthorizationCodePKCE,
\* refresh_access_token on a still valid token returns without a
\* token-endpoint call and leaves the stored token unchanged;
\* ClientCredentials makes one token-endpoint call on every refresh.
C10_RefreshValidIsNoOpForCodeFlows ==
    (pc = "done" /\ call.op = "refresh_access_token" /\ PreValid)
        => IF flow = "ClientCredentials"
           THEN Len(tokenCalls) = 1
           ELSE /\ tokenCalls = <<>>
                /\ access_token = call.pre
                /\ outcome = "return"

\* A code flow has just refreshed a still valid token, twice in succession
\* at the latest (the token before the call is the one a refresh left).
C10_Witness ==
    /\ pc = "done"
    /\ call.op = "refresh_access_token"
    /\ flow # "ClientCredentials"
    /\ PreValid
    /\ call.pre.refresh_token = "rt_new"
    /\ outcome = "return"

\* C11 as stated: for every flow, refresh_access_token with no stored token
\* and no explicit refresh token raises AccessTokenNotFound and makes no
\* token-endpoint call.
C11_NothingToRefreshRaises ==
    (pc = "done" /\ call.op = "refresh_access_token" /\ call.pre = NoToken
        /\ call.args.refresh_token = NoneStr)
        => /\ outcome = "AccessTokenNotFound"
           /\ tokenCalls = <<>>

\* C11 amended: for AuthorizationCode and AuthorizationCodePKCE,
\* refresh_access_token with no stored token and no explicit refresh token
\* raises AccessTokenNotFound, makes no token-endpoint call and stores
\* nothing; ClientCredentials requests a token with the client_credentials
\* grant instead and never raises AccessTokenNotFound.
C11_NothingToRefreshRaisesForCodeFlows ==
    (pc = "done" /\ call.op = "refresh_access_token" /\ call.pre = NoToken
        /\ call.args.refresh_token = NoneStr)
        => IF flow = "ClientCredentials"
           THEN /\ Len(tokenCalls) = 1
                /\ tokenCalls[1].form.grant_type = "client_credentials"
                /\ outcome # "AccessTokenNotFound"
           ELSE /\ outcome = "AccessTokenNotFound"
                /\ tokenCalls = <<>>
                /\ access_token = NoToken

\* A PKCE flow that holds no token has been asked to refresh, with no
\* explicit refresh token.
C11_Witness ==
    /\ pc = "done"
    /\ call.op = "refresh_access_token"
    /\ flow = "AuthorizationCodePKCE"
    /\ call.pre = NoToken
    /\ call.args.refresh_token = NoneStr
    /\ outcome = "AccessTokenNotFound"

\* The refresh token a refresh request has to carry: the explicit one if
\* given, else that of the token stored before the call.
ExpectedRefreshToken ==
    IF call.args.refresh_token # NoneStr THEN call.args.refresh_token
    ELSE call.pre.refresh_token

C13_ValidIsNotAfterExpiry ==
    (pc = "done" /\ call.op = "valid")
        => /\ result = <<call.at <= call.pre.created_at + call.pre.expires_in>>
           /\ access_token = call.pre

\* valid() has answered False, after the token's last instant.
C13_Witness ==
    /\ pc = "done"
    /\ call.op = "valid"
    /\ call.at > call.pre.created_at + call.pre.expires_in
    /\ result = <<FALSE>>

\* C14 as stated: valid() is False at exactly created_at + expires_in and
\* True at every earlier instant.
C14_ExpiredAtBoundary ==
    (pc = "done" /\ call.op = "valid")
        => /\ call.at = call.pre.created_at + call.pre.expires_in => result = <<FALSE>>
           /\ call.at < call.pre.created_at + call.pre.expires_in => result = <<TRUE>>

\* C14 amended: valid() is True at exactly created_at + expires_in and at
\* every earlier instant, and False at every later instant.
C14_ValidAtBoundary ==
    (pc = "done" /\ call.op = "valid")
        => /\ call.at = call.pre.created_at + call.pre.expires_in => result = <<TRUE>>
           /\ call.at < call.pre.created_at + call.pre.expires_in => result = <<TRUE>>
           /\ call.at > call.pre.created_at + call.pre.expires_in => result = <<FALSE>>

\* valid() has been called at exactly created_at + expires_in.
C14_Witness ==
    /\ pc = "done"
    /\ call.op = "valid"
    /\ call.at = call.pre.created_at + call.pre.expires_in
    /\ result = <<TRUE>>

\* C28: refresh_access_token of ClientCredentials is its get_access_token:
\* every call makes one token-endpoint call with grant client_credentials
\* and HTTP Basic auth, carrying no refresh token and no code, with or
\* without a stored token; a 200 stores the token of the response, another
\* status raises AccessTokenError.
C28_ClientCredentialsRefreshIsObtain ==
    /\ flow = "ClientCredentials" =>
          refresh_access_token(flow, NoneStr, access_token, now, issued)
            = get_access_token(flow, NoneStr, access_token, issued)
    /\ (pc = "done" /\ call.op = "refresh_access_token" /\ flow = "ClientCredentials")
          => /\ Len(tokenCalls) = 1
             /\ tokenCalls[1].form.grant_type = "client_credentials"
             /\ tokenCalls[1].form.auth = "Basic"
             /\ tokenCalls[1].form.refresh_token = NoneStr
             /\ IF tokenCalls[1].status = 200
                THEN /\ outcome = "return"
                     /\ access_token # NoToken
                     /\ access_token.access_token = tokenCalls[1].data.access_token
                     /\ access_token.expires_in = tokenCalls[1].data.expires_in
                     /\ access_token # call.pre
                ELSE outcome = "AccessTokenError"

\* A ClientCredentials flow without a token was refreshed and holds one now.
C28_Witness ==
    /\ pc = "done"
    /\ call.op = "refresh_access_token"
    /\ flow = "ClientCredentials"
    /\ call.pre = NoToken
    /\ outcome = "return"
    /\ access_token # NoToken

\* C30: when get_access_token or refresh_access_token raises
\* AccessTokenError, the stored token is the one before the call - none if
\* there was none, the same stale token otherwise - for each of the three
\* flows.
C30_FailedExchangeKeepsToken ==
    (pc = "done" /\ call.op \in {"get_access_token", "refresh_access_token"}
        /\ outcome = "AccessTokenError")
        => /\ access_token = call.pre
           /\ header = call.pre_header

\* The refresh of a stale token was rejected.
C30_Witness ==
    /\ pc = "done"
    /\ call.op = "refresh_access_token"
    /\ PreExpired
    /\ outcome = "AccessTokenError"
    /\ access_token = call.pre

\* C31: a flow that holds a token holds one after every call, whatever the
\* call, the clock and the answers of the token endpoint; and when
\* check_access_token returns, the Authorization header carries the access
\* value of the token the flow holds.
C31_TokenNeverLost ==
    /\ (pc = "done" /\ call.pre # NoToken) => access_token # NoToken
    /\ (pc = "done" /\ call.op = "check_access_token" /\ outcome = "return")
          => /\ access_token # NoToken
             /\ header = access_token.access_token

-----------------------------------------------------------------------------
(* Claims about scope checks and redirects, checked under SpecOps *)

\* C15: check_scopes on a client over a ClientCredentials flow raises
\* InvalidAuthorizationFlow, whatever the required scopes, and no other
\* exception.
C15_ScopelessFlowRaisesInvalidFlow ==
    (pc = "done" /\ call.op = "check_scopes" /\ flow = "ClientCredentials")
        => outcome = "InvalidAuthorizationFlow"

\* The required scopes of the last check_scopes that the flow was not granted
AbsentScopes == {scope \in call.args.required_scopes : scope \notin scopes}

\* C16: check_scopes on a flow with scopes raises IncompleteScopes if and
\* only if a required scope is not granted; the exception then lists exactly
\* the required scopes that are not granted; with all of them granted the
\* call returns.
C16_IncompleteScopesListsAllMissing ==
    (pc = "done" /\ call.op = "check_scopes" /\ flow # "ClientCredentials")
        => /\ outcome = "IncompleteScopes" <=> AbsentScopes # {}
           /\ AbsentScopes # {} => detail.missing = AbsentScopes
           /\ AbsentScopes = {} => outcome = "return"

\* Two scopes were required of a flow that was granted neither.
C16_Witness ==
    /\ pc = "done"
    /\ call.op = "check_scopes"
    /\ flow = "AuthorizationCodePKCE"
    /\ scopes = {}
    /\ Cardinality(call.args.required_scopes) = 2
    /\ outcome = "IncompleteScopes"
    /\ Cardinality(detail.missing) = 2

\* The four operations that start with check_scopes
GatedOps == {"get_users_saved_albums", "save_albums_for_user",
             "remove_users_saved_albums", "check_users_saved_albums"}

\* The scope check of the running operation cannot pass.
ScopeCheckFails ==
    /\ call.op \in GatedOps
    /\ \/ flow = "ClientCredentials"
       \/ \E scope \in RequiredScopes(call.op) : scope \notin scopes

\* C17: a scope-gated operation whose scope check fails ends there: no
\* resource request and no token-endpoint request has been made, and the
\* flow's token and the Authorization header are those before the call.
C17_ScopeCheckBeforeNetwork ==
    ScopeCheckFails
        => /\ pc = "done"
           /\ outcome \in {"IncompleteScopes", "TypeError"}
           /\ tokenCalls = <<>>
           /\ probe = NoRequest
           /\ futures = <<>>
           /\ access_token = call.pre
           /\ header = call.pre_header

\* save_albums_for_user was called without USER_LIBRARY_MODIFY while the
\* stored token was expired: check_access_token would have refreshed it.
C17_Witness ==
    /\ pc = "done"
    /\ call.op = "save_albums_for_user"
    /\ USER_LIBRARY_MODIFY \notin scopes
    /\ call.at > call.pre.created_at + call.pre.expires_in
    /\ outcome = "IncompleteScopes"

\* The redirect carries a value for key.  A parameter with an empty value
\* ("state=") counts as not carried: urllib's parse_qs leaves it out.
Carries(key) ==
    key \in DOMAIN call.args.query /\ call.args.query[key] # ""

\* C18: parse_redirect_uri on a redirect that carries a code: if it carries
\* a state, the call returns the code when that state equals the flow's
\* state, and raises InvalidState otherwise, also when the flow has no
\* state; if it carries no state, the call returns the code, also when the
\* flow has a state.
C18_StateComparedWhenPresent ==
    (pc = "done" /\ call.op = "parse_redirect_uri" /\ Carries("code"))
        => IF Carries("state") /\ call.args.query["state"] # state
           THEN outcome = "InvalidState" /\ result = <<>>
           ELSE outcome = "return" /\ result = <<call.args.query["code"]>>

\* A flow without a state got a redirect with a code and a state.
C18_Witness ==
    /\ pc = "done"
    /\ call.op = "parse_redirect_uri"
    /\ state = NoneStr
    /\ Carries("code")
    /\ Carries("state")
    /\ outcome = "InvalidState"

\* C19: parse_redirect_uri on a redirect without a code returns no code: it
\* raises AuthorizationFailed, carrying the redirect's error when there is
\* one, whatever the redirect's state is.
C19_NoCodeRaisesAuthorizationFailed ==
    (pc = "done" /\ call.op = "parse_redirect_uri" /\ ~Carries("code"))
        => /\ outcome = "AuthorizationFailed"
           /\ result = <<>>
           /\ Carries("error") => detail.error = call.args.query["error"]
           /\ ~Carries("error") => detail.error = NoneStr

\* A redirect with an error, without a code and with a state other than
\* the flow's.
C19_Witness ==
    /\ pc = "done"
    /\ call.op = "parse_redirect_uri"
    /\ ~Carries("code")
    /\ Carries("error")
    /\ Carries("state")
    /\ call.args.query["state"] # state
    /\ outcome = "AuthorizationFailed"
    /\ detail.error = call.args.query["error"]

\* The calling thread is between the start of its first request and the
\* end of the merge.
InFanout == pc \in {"probe", "submit", "merge"}

\* The bearer values of the requests sent so far by the running operation
Bearers ==
    (IF probe # NoRequest THEN {probe.bearer} ELSE {})
    \cup {futures[i].bearer : i \in {j \in 1..Len(futures) : futures[j].state = "done"}}

\* C25: check_access_token, with the refresh it may make, is over before
\* the first request of an operation is sent; from then to the end of the
\* operation the stored token and the Authorization header do not change
\* and no token-endpoint call is made, so every request of the operation
\* carries the same bearer value, also when the token expires meanwhile.
C25_TokenCheckedBeforeFanout ==
    /\ [](Bearers \subseteq {header})
    /\ [][InFanout => /\ header' = header
                      /\ access_token' = access_token
                      /\ tokenCalls' = tokenCalls]_vars

\* The token has expired in the middle of a fan-out: one sub-request was
\* sent, another is still to be sent.
C25_Witness ==
    /\ pc = "submit"
    /\ now > call.pre.created_at + call.pre.expires_in
    /\ \E i \in 1..Len(futures) : futures[i].state = "done" /\ futures[i].bearer = header
    /\ \E i \in 1..Len(futures) : futures[i].state = "pending"
    /\ header = call.pre_header

====
